---- MODULE Spec2Model ----
(***************************************************************************)
(* Model of experiments/aubo_example/hyperparams.py: the module-level      *)
(* script that reads the arm's end-effector position from the transform    *)
(* tree, makes sure the data directory exists and assembles the nested     *)
(* dictionaries common / agent / algorithm / config.                       *)
(*                                                                         *)
(* Real-valued hyperparameters are written as <<numerator, denominator>>.  *)
(* Cartesian coordinates are integers in centimetres.                      *)
(***************************************************************************)
EXTENDS Integers, Sequences, FiniteSets, TLC

\* ---- bounds of the environment ----------------------------------------
\* coordinates the transform tree can report are 0..MaxCoord
MaxCoord == 1
\* number of transforms the listener's buffer can receive
MaxTime == 2
\* number of distinct wall-clock readings of datetime.now()
MaxClock == 2

Coord == 0..MaxCoord
\* a sample of wrist positions: x and y vary independently, z follows them
Positions == {<<a, b, a + b>> : a \in Coord, b \in Coord}

\* ---- imported names (lines 12-26) -------------------------------------
JOINT_ANGLES == "JOINT_ANGLES"
JOINT_VELOCITIES == "JOINT_VELOCITIES"
END_EFFECTOR_POINTS == "END_EFFECTOR_POINTS"
END_EFFECTOR_POINT_VELOCITIES == "END_EFFECTOR_POINT_VELOCITIES"
ACTION_ == "ACTION"

\* ---- module constants (lines 29-116) ----------------------------------
JOINT_PUBLISHER == "/arm_controller/command"
JOINT_SUBSCRIBER == "/arm_controller/state"
SLOWNESS == <<10, 1>>
RESET_SLOWNESS == <<2, 1>>

PEDESTAL_LINK == "base_Link"
WRIST3_LINK == "wrist3_Link"

INITIAL_JOINTS == <<0, 0, 0, 0, 0, 0>>

NUM_EE_POINTS == 1
EE_POINTS == << <<0, 0, 0>> >>
EE_POS_TGT == <<30, -30, 80>>
EE_ROT_TGT == << <<1, 0, 0>>, <<0, 1, 0>>, <<0, 0, 1>> >>

JOINT_ORDER == <<"shoulder_joint", "upperArm_joint", "foreArm_joint",
                 "wrist1_joint", "wrist2_joint", "wrist3_joint">>
LINK_NAMES == <<"base_Link", "shoulder_Link", "upperArm_Link", "foreArm_Link",
                "wrist1_Link", "wrist2_Link", "wrist3_Link">>

AUBO_GAINS == <<1, 1, 1, 1, 1, 1>>

\* EE_POINTS.shape[1]
EePointsCols == Len(EE_POINTS[1])

SENSOR_DIMS ==
    [k \in {JOINT_ANGLES, JOINT_VELOCITIES, END_EFFECTOR_POINTS,
            END_EFFECTOR_POINT_VELOCITIES, ACTION_} |->
        CASE k = JOINT_ANGLES -> Len(JOINT_ORDER)
          [] k = JOINT_VELOCITIES -> Len(JOINT_ORDER)
          [] k = END_EFFECTOR_POINTS -> NUM_EE_POINTS * EePointsCols
          [] k = END_EFFECTOR_POINT_VELOCITIES -> NUM_EE_POINTS * EePointsCols
          [] k = ACTION_ -> Len(AUBO_GAINS)]

STATE_TYPES == [positions |-> JOINT_ANGLES, velocities |-> JOINT_VELOCITIES]

TREE_PATH == "/home/eric/aubo_ws/src/aubo_robot/aubo_description/urdf/aubo_i5_robot.urdf"

\* the two directories os.makedirs(common['data_files_dir']) can create
EXP_DIR == "experiments/aubo_example/"
DATA_FILES_DIR == "experiments/aubo_example/data_files/"

TIMESTEP == <<1, 100>>
STEP_COUNT == 100
SAMPLE_COUNT == 5
CONDITIONS == 1
ITERATIONS == 10

\* ---- Python / numpy helpers -------------------------------------------
\* np.zeros(n)
Zeros(n) == [k \in 1..n |-> 0]

RECURSIVE SumOver(_, _)
SumOver(d, S) ==
    IF S = {} THEN 0
    ELSE LET k == CHOOSE x \in S : TRUE
         IN d[k] + SumOver(d, S \ {k})

\* sum(d.values())
SumValues(d) == SumOver(d, DOMAIN d)

Min(a, b) == IF a < b THEN a ELSE b

\* x[lo:hi] = v  (0-based half-open slice, clipped to the array as numpy does)
SetSlice(x, lo, hi, v) ==
    LET l == Min(lo, Len(x))
        h == Min(hi, Len(x))
    IN [k \in 1..Len(x) |-> IF l < k /\ k <= h THEN v[k - l] ELSE x[k]]

\* d[k] = v
SetItem(d, k, v) == (k :> v) @@ d

\* a dictionary value that is a mutable object is held by reference
\* faulty variant: the dictionary stores a copy of the object
BindCopy(name, value) == [kind |-> "val", val |-> value]

Bind(name, value) == [kind |-> "ref", to |-> name]

\* state_space (line 142)
\* faulty variant: the action dimension is not subtracted
StateSpaceNoSub == SumValues(SENSOR_DIMS)

StateSpace == SumValues(SENSOR_DIMS) - SENSOR_DIMS[ACTION_]

\* joint_dim (line 144)
\* faulty variant: the joint velocities are left out
JointDimAnglesOnly == SENSOR_DIMS[JOINT_ANGLES]

JointDim == SENSOR_DIMS[JOINT_ANGLES] + SENSOR_DIMS[JOINT_VELOCITIES]

\* row r of rot.dot(p) + pos
RotRow(rot, p, pos, r) ==
    rot[r][1] * p[1] + rot[r][2] * p[2] + rot[r][3] * p[3] + pos[r]

RECURSIVE FlattenPoints(_, _, _, _)
FlattenPoints(pts, pos, rot, n) ==
    IF n = 0 THEN << >>
    ELSE FlattenPoints(pts, pos, rot, n - 1)
         \o [r \in 1..3 |-> RotRow(rot, pts[n], pos, r)]

\* np.ndarray.flatten(get_ee_points(offsets, ee_pos, ee_rot).T)
\* faulty variant: the target position is not added
GetEePointsNoPos(offsets, ee_pos, ee_rot) ==
    FlattenPoints(offsets, <<0, 0, 0>>, ee_rot, Len(offsets))

GetEePoints(offsets, ee_pos, ee_rot) ==
    FlattenPoints(offsets, ee_pos, ee_rot, Len(offsets))

\* one entry of the record of calls into external libraries
Call(fn, arg, ret, ok) == [fn |-> fn, arg |-> arg, ret |-> ret, ok |-> ok]

NoErr == [type |-> "none", line |-> 0]

\* ---- state -------------------------------------------------------------
VARIABLES
    pc,                 \* position of the script
    it, i,              \* xrange iterator (next index) and loop variable
    state_space, joint_dim, x0, time, ee_tgt, reset_condition,
    x0s, ee_tgts, reset_conditions,
    common, agent, algorithm, config,
    fk_cost_ramp, fk_cost_final,
    err,                \* uncaught exception that ended the script, if any
    calls,              \* calls made into rospy / tf / os, in order
    nodeUp, listening,  \* rospy node initialised, TransformListener created
    tfBuf,              \* transforms received by the listener; index = stamp
    fs,                 \* directories that exist
    clock               \* reading of datetime.now()

locals == <<it, i, state_space, joint_dim, x0, time, ee_tgt, reset_condition>>
lists == <<x0s, ee_tgts, reset_conditions>>
dicts == <<common, agent, algorithm, config, fk_cost_ramp, fk_cost_final>>
ros == <<nodeUp, listening>>
script == <<pc, locals, lists, dicts, err, calls, ros>>
vars == <<script, tfBuf, fs, clock>>

\* the object a dictionary value stands for
Resolve(v) ==
    IF v.kind = "ref"
    THEN CASE v.to = "common" -> common
           [] v.to = "agent" -> agent
           [] v.to = "algorithm" -> algorithm
           [] v.to = "x0s" -> x0s
           [] v.to = "ee_tgts" -> ee_tgts
           [] v.to = "reset_conditions" -> reset_conditions
           [] v.to = "fk_cost_ramp" -> fk_cost_ramp
           [] v.to = "fk_cost_final" -> fk_cost_final
    ELSE v.val

Init ==
    /\ pc = "common"
    /\ it = 0 /\ i = 0
    /\ state_space = 0 /\ joint_dim = 0
    /\ x0 = << >> /\ time = 0 /\ ee_tgt = << >> /\ reset_condition = << >>
    /\ x0s = << >> /\ ee_tgts = << >> /\ reset_conditions = << >>
    /\ common = << >> /\ agent = << >> /\ algorithm = << >> /\ config = << >>
    /\ fk_cost_ramp = << >> /\ fk_cost_final = << >>
    /\ err = NoErr
    /\ calls = << >>
    /\ nodeUp = FALSE /\ listening = FALSE
    /\ tfBuf = << >>
    /\ fs \in {{}, {EXP_DIR}, {EXP_DIR, DATA_FILES_DIR}}
    /\ clock \in 1..MaxClock

\* ---- lines 118-130 ----------------------------------------------------
BuildCommon ==
    /\ pc = "common"
    /\ x0s' = << >> /\ ee_tgts' = << >> /\ reset_conditions' = << >>
    /\ common' = [experiment_name |-> <<"my_experiment", "_", clock>>,
                  experiment_dir |-> EXP_DIR,
                  data_files_dir |-> DATA_FILES_DIR,
                  target_filename |-> <<EXP_DIR, "target.npz">>,
                  log_filename |-> <<EXP_DIR, "log.txt">>,
                  conditions |-> CONDITIONS]
    /\ it' = 0
    /\ pc' = "loop"
    /\ UNCHANGED <<i, state_space, joint_dim, x0, time, ee_tgt, reset_condition,
                   agent, algorithm, config, fk_cost_ramp, fk_cost_final,
                   err, calls, ros, tfBuf, fs, clock>>

\* ---- line 133: for i in xrange(common['conditions']) ------------------
LoopEnter ==
    /\ pc = "loop"
    /\ it < common.conditions
    /\ i' = it /\ it' = it + 1
    /\ pc' = "setup"
    /\ UNCHANGED <<state_space, joint_dim, x0, time, ee_tgt, reset_condition,
                   lists, dicts, err, calls, ros, tfBuf, fs, clock>>

LoopExit ==
    /\ pc = "loop"
    /\ ~(it < common.conditions)
    /\ pc' = "check_dir"
    /\ UNCHANGED <<locals, lists, dicts, err, calls, ros, tfBuf, fs, clock>>

\* ---- lines 135-148 ----------------------------------------------------
SetupX0 ==
    /\ pc = "setup"
    /\ state_space' = StateSpace
    /\ joint_dim' = JointDim
    /\ x0' = SetSlice(Zeros(StateSpace), 0, SENSOR_DIMS[JOINT_ANGLES],
                      Zeros(SENSOR_DIMS[JOINT_ANGLES]))
    /\ pc' = "init_node"
    /\ UNCHANGED <<it, i, time, ee_tgt, reset_condition,
                   lists, dicts, err, calls, ros, tfBuf, fs, clock>>

\* ---- line 151: rospy.init_node ----------------------------------------
InitNode ==
    /\ pc = "init_node"
    /\ nodeUp' = TRUE
    /\ calls' = Append(calls, Call("init_node", 0, 0, TRUE))
    /\ pc' = "listener"
    /\ UNCHANGED <<locals, lists, dicts, err, listening, tfBuf, fs, clock>>

\* ---- line 154: tf = TransformListener() -------------------------------
\* a new listener starts with an empty buffer
\* faulty variant: the script goes on to the query without sleeping
CreateListenerNoSleep ==
    /\ pc = "listener"
    /\ listening' = TRUE
    /\ tfBuf' = << >>
    /\ calls' = Append(calls, Call("TransformListener", 0, 0, TRUE))
    /\ pc' = "query"
    /\ UNCHANGED <<locals, lists, dicts, err, nodeUp, fs, clock>>

CreateListener ==
    /\ pc = "listener"
    /\ listening' = TRUE
    /\ tfBuf' = << >>
    /\ calls' = Append(calls, Call("TransformListener", 0, 0, TRUE))
    /\ pc' = "sleep"
    /\ UNCHANGED <<locals, lists, dicts, err, nodeUp, fs, clock>>

\* ---- line 157: rospy.sleep(1) -----------------------------------------
Sleep ==
    /\ pc = "sleep"
    /\ calls' = Append(calls, Call("sleep", 1, 0, TRUE))
    /\ pc' = "query"
    /\ UNCHANGED <<locals, lists, dicts, err, ros, tfBuf, fs, clock>>

\* ---- line 158: time = tf.getLatestCommonTime(...) ---------------------
GetLatestCommonTimeOk ==
    /\ pc = "query"
    /\ Len(tfBuf) > 0
    /\ time' = Len(tfBuf)
    /\ calls' = Append(calls, Call("getLatestCommonTime", 0, Len(tfBuf), TRUE))
    /\ pc' = "lookup"
    /\ UNCHANGED <<it, i, state_space, joint_dim, x0, ee_tgt, reset_condition,
                   lists, dicts, err, ros, tfBuf, fs, clock>>

\* no transform between the two links has been received: tf.Exception
GetLatestCommonTimeFail ==
    /\ pc = "query"
    /\ Len(tfBuf) = 0
    /\ calls' = Append(calls, Call("getLatestCommonTime", 0, 0, FALSE))
    /\ err' = [type |-> "tf.Exception", line |-> 158]
    /\ pc' = "failed"
    /\ UNCHANGED <<locals, lists, dicts, ros, tfBuf, fs, clock>>

\* ---- line 160: x0[joint_dim:joint_dim + 3] = get_position(tf, ..., time) -
GetPositionOk ==
    /\ pc = "lookup"
    /\ time \in 1..Len(tfBuf)
    /\ x0' = SetSlice(x0, joint_dim, joint_dim + NUM_EE_POINTS * EePointsCols,
                      tfBuf[time])
    /\ calls' = Append(calls, Call("get_position", time, tfBuf[time], TRUE))
    /\ pc' = "target"
    /\ UNCHANGED <<it, i, state_space, joint_dim, time, ee_tgt, reset_condition,
                   lists, dicts, err, ros, tfBuf, fs, clock>>

\* the buffer no longer holds a transform with that stamp: tf.Exception,
\* and nothing catches it
\* faulty variant: the exception is caught and the script goes on
GetPositionFailSwallowed ==
    /\ pc = "lookup"
    /\ time \notin 1..Len(tfBuf)
    /\ calls' = Append(calls, Call("get_position", time, 0, FALSE))
    /\ err' = [type |-> "tf.Exception", line |-> 160]
    /\ pc' = "target"
    /\ UNCHANGED <<locals, lists, dicts, ros, tfBuf, fs, clock>>

GetPositionFail ==
    /\ pc = "lookup"
    /\ time \notin 1..Len(tfBuf)
    /\ calls' = Append(calls, Call("get_position", time, 0, FALSE))
    /\ err' = [type |-> "tf.Exception", line |-> 160]
    /\ pc' = "failed"
    /\ UNCHANGED <<locals, lists, dicts, ros, tfBuf, fs, clock>>

\* ---- lines 139-140, 163-170 -------------------------------------------
ComputeTarget ==
    /\ pc = "target"
    /\ ee_tgt' = GetEePoints(EE_POINTS, EE_POS_TGT, EE_ROT_TGT)
    /\ reset_condition' = (JOINT_ANGLES :> INITIAL_JOINTS)
                          @@ (JOINT_VELOCITIES :> << >>)
    /\ pc' = "append_x0"
    /\ UNCHANGED <<it, i, state_space, joint_dim, x0, time,
                   lists, dicts, err, calls, ros, tfBuf, fs, clock>>

\* ---- line 172 ---------------------------------------------------------
AppendX0 ==
    /\ pc = "append_x0"
    /\ x0s' = Append(x0s, x0)
    /\ pc' = "append_tgt"
    /\ UNCHANGED <<locals, ee_tgts, reset_conditions, dicts, err, calls, ros,
                   tfBuf, fs, clock>>

\* ---- line 173 ---------------------------------------------------------
\* faulty variant: the target is appended to x0s
AppendEeTgtWrongList ==
    /\ pc = "append_tgt"
    /\ x0s' = Append(x0s, ee_tgt)
    /\ pc' = "append_reset"
    /\ UNCHANGED <<locals, ee_tgts, reset_conditions, dicts, err, calls, ros,
                   tfBuf, fs, clock>>

AppendEeTgt ==
    /\ pc = "append_tgt"
    /\ ee_tgts' = Append(ee_tgts, ee_tgt)
    /\ pc' = "append_reset"
    /\ UNCHANGED <<locals, x0s, reset_conditions, dicts, err, calls, ros,
                   tfBuf, fs, clock>>

\* ---- line 174 ---------------------------------------------------------
AppendReset ==
    /\ pc = "append_reset"
    /\ reset_conditions' = Append(reset_conditions, reset_condition)
    /\ pc' = "loop"
    /\ UNCHANGED <<locals, x0s, ee_tgts, dicts, err, calls, ros,
                   tfBuf, fs, clock>>

\* ---- line 176: if not os.path.exists(common['data_files_dir']) --------
CheckDir ==
    /\ pc = "check_dir"
    /\ calls' = Append(calls, Call("exists", common.data_files_dir,
                                   common.data_files_dir \in fs, TRUE))
    /\ pc' = IF ~(common.data_files_dir \in fs) THEN "makedirs" ELSE "agent"
    /\ UNCHANGED <<locals, lists, dicts, err, ros, tfBuf, fs, clock>>

\* ---- line 177: os.makedirs(common['data_files_dir']) ------------------
\* creates the leaf and every missing parent
\* faulty variant: only the experiment directory is created
MakedirsOkParentOnly ==
    /\ pc = "makedirs"
    /\ common.data_files_dir \notin fs
    /\ fs' = fs \cup {common.experiment_dir}
    /\ calls' = Append(calls, Call("makedirs", common.experiment_dir, 0, TRUE))
    /\ pc' = "agent"
    /\ UNCHANGED <<locals, lists, dicts, err, ros, tfBuf, clock>>

MakedirsOk ==
    /\ pc = "makedirs"
    /\ common.data_files_dir \notin fs
    /\ fs' = fs \cup {common.experiment_dir, common.data_files_dir}
    /\ calls' = Append(calls, Call("makedirs", common.data_files_dir, 0, TRUE))
    /\ pc' = "agent"
    /\ UNCHANGED <<locals, lists, dicts, err, ros, tfBuf, clock>>

\* the leaf already exists: OSError (EEXIST), and nothing catches it
\* faulty variant: an existing directory is accepted
MakedirsExistOk ==
    /\ pc = "makedirs"
    /\ common.data_files_dir \in fs
    /\ calls' = Append(calls, Call("makedirs", common.data_files_dir, 0, TRUE))
    /\ pc' = "agent"
    /\ UNCHANGED <<locals, lists, dicts, err, ros, tfBuf, fs, clock>>

MakedirsFail ==
    /\ pc = "makedirs"
    /\ common.data_files_dir \in fs
    /\ calls' = Append(calls, Call("makedirs", common.data_files_dir, 0, FALSE))
    /\ err' = [type |-> "OSError", line |-> 177]
    /\ pc' = "failed"
    /\ UNCHANGED <<locals, lists, dicts, ros, tfBuf, fs, clock>>

\* ---- lines 179-201 ----------------------------------------------------
AgentDict(cm) ==
    [type |-> "AgentAUBOROS",
     dt |-> TIMESTEP,
     dU |-> SENSOR_DIMS[ACTION_],
     conditions |-> cm.conditions,
     T |-> STEP_COUNT,
     x0 |-> Bind("x0s", x0s),
     ee_points_tgt |-> Bind("ee_tgts", ee_tgts),
     reset_conditions |-> Bind("reset_conditions", reset_conditions),
     sensor_dims |-> SENSOR_DIMS,
     joint_order |-> JOINT_ORDER,
     link_names |-> LINK_NAMES,
     state_types |-> STATE_TYPES,
     tree_path |-> TREE_PATH,
     joint_publisher |-> JOINT_PUBLISHER,
     joint_subscriber |-> JOINT_SUBSCRIBER,
     slowness |-> SLOWNESS,
     reset_slowness |-> RESET_SLOWNESS,
     state_include |-> <<JOINT_ANGLES, JOINT_VELOCITIES, END_EFFECTOR_POINTS,
                         END_EFFECTOR_POINT_VELOCITIES>>,
     end_effector_points |-> <<EE_POINTS>>,
     obs_include |-> << >>]

BuildAgent ==
    /\ pc = "agent"
    /\ agent' = AgentDict(common)
    /\ pc' = "algorithm"
    /\ UNCHANGED <<locals, lists, common, algorithm, config, fk_cost_ramp,
                   fk_cost_final, err, calls, ros, tfBuf, fs, clock>>

\* ---- lines 203-207 ----------------------------------------------------
\* faulty variant: conditions is taken from SAMPLE_COUNT
AlgorithmDictSampleCount(cm) ==
    [type |-> "AlgorithmTrajOpt",
     conditions |-> SAMPLE_COUNT,
     iterations |-> ITERATIONS]

AlgorithmDict(cm) ==
    [type |-> "AlgorithmTrajOpt",
     conditions |-> cm.conditions,
     iterations |-> ITERATIONS]

BuildAlgorithm ==
    /\ pc = "algorithm"
    /\ algorithm' = AlgorithmDict(common)
    /\ pc' = "init_traj_distr"
    /\ UNCHANGED <<locals, lists, common, agent, config, fk_cost_ramp,
                   fk_cost_final, err, calls, ros, tfBuf, fs, clock>>

\* ---- lines 209-219 ----------------------------------------------------
InitTrajDistr(ag) ==
    [type |-> "init_lqr",
     init_gains |-> [k \in 1..Len(AUBO_GAINS) |-> <<1, AUBO_GAINS[k]>>],
     init_acc |-> Zeros(SENSOR_DIMS[ACTION_]),
     init_var |-> <<1, 1>>,
     stiffness |-> <<1, 2>>,
     stiffness_vel |-> <<1, 4>>,
     final_weight |-> 50,
     dt |-> ag.dt,
     T |-> ag.T]

SetInitTrajDistr ==
    /\ pc = "init_traj_distr"
    /\ algorithm' = SetItem(algorithm, "init_traj_distr", InitTrajDistr(agent))
    /\ pc' = "fk_cost_ramp"
    /\ UNCHANGED <<locals, lists, common, agent, config, fk_cost_ramp,
                   fk_cost_final, err, calls, ros, tfBuf, fs, clock>>

\* ---- lines 224-233 ----------------------------------------------------
BuildFkCostRamp ==
    /\ pc = "fk_cost_ramp"
    /\ fk_cost_ramp' =
           [type |-> "CostFK",
            target_end_effector |-> <<Zeros(NUM_EE_POINTS * EePointsCols)>>,
            wp |-> [k \in 1..SENSOR_DIMS[END_EFFECTOR_POINTS] |-> 1],
            l1 |-> <<1, 10>>,
            l2 |-> <<1, 10000>>,
            ramp_option |-> "RAMP_LINEAR"]
    /\ pc' = "fk_cost_final"
    /\ UNCHANGED <<locals, lists, common, agent, algorithm, config,
                   fk_cost_final, err, calls, ros, tfBuf, fs, clock>>

\* ---- lines 237-245 ----------------------------------------------------
BuildFkCostFinal ==
    /\ pc = "fk_cost_final"
    /\ fk_cost_final' =
           [type |-> "CostFK",
            target_end_effector |-> Zeros(NUM_EE_POINTS * EePointsCols),
            wp |-> [k \in 1..SENSOR_DIMS[END_EFFECTOR_POINTS] |-> 1],
            l1 |-> <<1, 1>>,
            l2 |-> <<0, 1>>,
            wp_final_multiplier |-> <<100, 1>>,
            ramp_option |-> "RAMP_FINAL_ONLY"]
    /\ pc' = "cost"
    /\ UNCHANGED <<locals, lists, common, agent, algorithm, config,
                   fk_cost_ramp, err, calls, ros, tfBuf, fs, clock>>

\* ---- lines 248-252 ----------------------------------------------------
SetCost ==
    /\ pc = "cost"
    /\ algorithm' = SetItem(algorithm, "cost",
           [type |-> "CostSum",
            costs |-> <<Bind("fk_cost_ramp", fk_cost_ramp),
                        Bind("fk_cost_final", fk_cost_final)>>,
            weights |-> << <<1, 1>>, <<1, 1>> >>])
    /\ pc' = "dynamics"
    /\ UNCHANGED <<locals, lists, common, agent, config, fk_cost_ramp,
                   fk_cost_final, err, calls, ros, tfBuf, fs, clock>>

\* ---- lines 254-263 ----------------------------------------------------
SetDynamics ==
    /\ pc = "dynamics"
    /\ algorithm' = SetItem(algorithm, "dynamics",
           [type |-> "DynamicsLRPrior",
            regularization |-> <<1, 1000000>>,
            prior |-> [type |-> "DynamicsPriorGMM",
                       max_clusters |-> 20,
                       min_samples_per_cluster |-> 40,
                       max_samples |-> 20]])
    /\ pc' = "traj_opt"
    /\ UNCHANGED <<locals, lists, common, agent, config, fk_cost_ramp,
                   fk_cost_final, err, calls, ros, tfBuf, fs, clock>>

\* ---- lines 265-267 ----------------------------------------------------
SetTrajOpt ==
    /\ pc = "traj_opt"
    /\ algorithm' = SetItem(algorithm, "traj_opt", [type |-> "TrajOptLQRPython"])
    /\ pc' = "policy_opt"
    /\ UNCHANGED <<locals, lists, common, agent, config, fk_cost_ramp,
                   fk_cost_final, err, calls, ros, tfBuf, fs, clock>>

\* ---- line 269 ---------------------------------------------------------
SetPolicyOpt ==
    /\ pc = "policy_opt"
    /\ algorithm' = SetItem(algorithm, "policy_opt", << >>)
    /\ pc' = "config"
    /\ UNCHANGED <<locals, lists, common, agent, config, fk_cost_ramp,
                   fk_cost_final, err, calls, ros, tfBuf, fs, clock>>

\* ---- lines 271-279 ----------------------------------------------------
BuildConfig ==
    /\ pc = "config"
    /\ config' = [iterations |-> algorithm.iterations,
                  common |-> Bind("common", common),
                  verbose_trials |-> 0,
                  agent |-> Bind("agent", agent),
                  gui_on |-> TRUE,
                  algorithm |-> Bind("algorithm", algorithm),
                  num_samples |-> SAMPLE_COUNT]
    /\ pc' = "info"
    /\ UNCHANGED <<locals, lists, common, agent, algorithm, fk_cost_ramp,
                   fk_cost_final, err, calls, ros, tfBuf, fs, clock>>

\* ---- line 281: common['info'] = generate_experiment_info(config) ------
\* the text it returns is made of these entries of its argument
GenerateExperimentInfo(cfg) ==
    [exp_name |-> Resolve(cfg.common).experiment_name,
     alg_type |-> Resolve(cfg.algorithm).type,
     alg_dyn |-> Resolve(cfg.algorithm).dynamics.type,
     alg_cost |-> Resolve(cfg.algorithm).cost.type,
     iterations |-> cfg.iterations,
     conditions |-> Resolve(cfg.algorithm).conditions,
     samples |-> cfg.num_samples]

GenInfo ==
    /\ pc = "info"
    /\ common' = SetItem(common, "info", GenerateExperimentInfo(config))
    /\ pc' = "done"
    /\ UNCHANGED <<locals, lists, agent, algorithm, config, fk_cost_ramp,
                   fk_cost_final, err, calls, ros, tfBuf, fs, clock>>

\* ---- the environment --------------------------------------------------
\* the robot publishes a transform between the base and the wrist; the
\* listener of line 154 stores it under the next stamp
EnvTransform ==
    /\ listening
    /\ pc \in {"sleep", "query", "lookup"}
    /\ Len(tfBuf) < MaxTime
    /\ \E p \in Positions : tfBuf' = Append(tfBuf, p)
    /\ UNCHANGED <<script, fs, clock>>

\* the listener drops what it holds (time moved backwards)
EnvTfReset ==
    /\ listening
    /\ pc \in {"sleep", "query", "lookup"}
    /\ tfBuf # << >>
    /\ tfBuf' = << >>
    /\ UNCHANGED <<script, fs, clock>>

\* another process creates one of the experiment's directories
EnvCreateDir ==
    /\ pc \notin {"done", "failed"}
    /\ \E d \in {EXP_DIR, DATA_FILES_DIR} :
          /\ d \notin fs
          /\ fs' = fs \cup {EXP_DIR, d}
    /\ UNCHANGED <<script, tfBuf, clock>>

Next ==
    \/ BuildCommon
    \/ LoopEnter
    \/ LoopExit
    \/ SetupX0
    \/ InitNode
    \/ CreateListener
    \/ Sleep
    \/ GetLatestCommonTimeOk
    \/ GetLatestCommonTimeFail
    \/ GetPositionOk
    \/ GetPositionFail
    \/ ComputeTarget
    \/ AppendX0
    \/ AppendEeTgt
    \/ AppendReset
    \/ CheckDir
    \/ MakedirsOk
    \/ MakedirsFail
    \/ BuildAgent
    \/ BuildAlgorithm
    \/ SetInitTrajDistr
    \/ BuildFkCostRamp
    \/ BuildFkCostFinal
    \/ SetCost
    \/ SetDynamics
    \/ SetTrajOpt
    \/ SetPolicyOpt
    \/ BuildConfig
    \/ GenInfo
    \/ EnvTransform
    \/ EnvTfReset
    \/ EnvCreateDir

Spec == Init /\ [][Next]_vars

\* ======================================================================
\* Properties
\* ======================================================================
Unbound(d) == DOMAIN d = {}

\* positions of the script inside the loop body, after lines 135-148
AfterSetup == {"init_node", "listener", "sleep", "query", "lookup",
               "target", "append_x0", "append_tgt", "append_reset"}
BeforeLookup == {"init_node", "listener", "sleep", "query", "lookup"}
AfterLookup == {"target", "append_x0", "append_tgt", "append_reset"}
AfterLoop == {"check_dir", "makedirs", "agent", "algorithm", "init_traj_distr",
              "fk_cost_ramp", "fk_cost_final", "cost", "dynamics", "traj_opt",
              "policy_opt", "config", "info", "done"}

CallsOf(fn) == {j \in 1..Len(calls) : calls[j].fn = fn}
OkCallsOf(fn) == {j \in CallsOf(fn) : calls[j].ok}

\* 1-based indices of the end-effector point entries of a state vector
EeRange == 13..15

\* C1: for every condition the loop sets up, state_space is the sum of the
\* declared sensor dimensions minus the action dimension, which is 18, and
\* the x0 built and appended for the condition has that many entries.
C1_StateSpace ==
    /\ pc \in AfterSetup =>
          /\ state_space + SENSOR_DIMS[ACTION_] =
                 SENSOR_DIMS[JOINT_ANGLES] + SENSOR_DIMS[JOINT_VELOCITIES]
                 + SENSOR_DIMS[END_EFFECTOR_POINTS]
                 + SENSOR_DIMS[END_EFFECTOR_POINT_VELOCITIES]
                 + SENSOR_DIMS[ACTION_]
          /\ SENSOR_DIMS[JOINT_ANGLES] = 6 /\ SENSOR_DIMS[JOINT_VELOCITIES] = 6
          /\ SENSOR_DIMS[END_EFFECTOR_POINTS] = 3
          /\ SENSOR_DIMS[END_EFFECTOR_POINT_VELOCITIES] = 3
          /\ SENSOR_DIMS[ACTION_] = 6
          /\ state_space = 18
          /\ Len(x0) = state_space
    /\ \A k \in 1..Len(x0s) : Len(x0s[k]) = 18

C1_Witness ==
    pc = "loop" /\ Len(x0s) = 1 /\ Len(x0s[1]) = 18 /\ state_space = 18

\* C2: when the script has run to completion the directory
\* common['data_files_dir'] exists, whether or not it existed at the start.
C2_DirExists ==
    pc = "done" => common.data_files_dir \in fs

C2_Witness ==
    /\ pc = "done"
    /\ OkCallsOf("makedirs") # {}
    /\ DATA_FILES_DIR \in fs

\* the initial end-effector position stored in x0s[k] is a value the
\* transform tree returned
InitialFromTree(k) ==
    \E j \in OkCallsOf("get_position") :
        [r \in 1..3 |-> x0s[k][12 + r]] = calls[j].ret

\* the target stored in ee_tgts[k] is a value the transform tree returned
TargetFromTree(k) ==
    \E j \in OkCallsOf("get_position") : ee_tgts[k] = calls[j].ret

\* C3 as stated: in a completed run both the initial and the target
\* end-effector pose were read from the transform tree.
C3_Original ==
    pc = "done" => InitialFromTree(1) /\ TargetFromTree(1)

\* C3 (amended): in a completed run the initial end-effector position is
\* read from the transform tree exactly once (one latest-common-time query,
\* one position lookup, whose result is what x0 holds); the target is the
\* hard-coded constant EE_POS_TGT and is not read from the tree.
C3_PoseSources ==
    pc = "done" =>
        /\ Cardinality(CallsOf("getLatestCommonTime")) = 1
        /\ Cardinality(CallsOf("get_position")) = 1
        /\ InitialFromTree(1)
        /\ ee_tgts[1] = EE_POS_TGT
        /\ ~TargetFromTree(1)

C3_Witness ==
    /\ pc = "done"
    /\ \E j \in OkCallsOf("get_position") : calls[j].ret = <<1, 0, 1>>
    /\ ee_tgts = <<EE_POS_TGT>>

\* C4: the loop runs over one condition; each condition appends exactly one
\* element to x0s, then to ee_tgts, then to reset_conditions, the element of
\* condition i going to position i; at the loop head the three lists have
\* equal length, and after the loop each has common['conditions'] = 1
\* elements.
C4_Lists ==
    /\ pc \in {"setup"} \cup AfterSetup \cup {"loop"} \cup AfterLoop =>
          common.conditions = 1
    /\ pc = "loop" =>
          /\ Len(x0s) = it /\ Len(ee_tgts) = it /\ Len(reset_conditions) = it
          /\ it > 0 => reset_conditions[it] = reset_condition
    /\ pc \in ({"setup"} \cup AfterSetup) \ {"append_tgt", "append_reset"} =>
          Len(x0s) = i /\ Len(ee_tgts) = i /\ Len(reset_conditions) = i
    /\ pc = "append_tgt" =>
          /\ Len(x0s) = i + 1 /\ Len(ee_tgts) = i /\ Len(reset_conditions) = i
          /\ x0s[i + 1] = x0
    /\ pc = "append_reset" =>
          /\ Len(x0s) = i + 1 /\ Len(ee_tgts) = i + 1
          /\ Len(reset_conditions) = i
          /\ ee_tgts[i + 1] = ee_tgt
    /\ pc \in AfterLoop =>
          /\ Len(x0s) = common.conditions
          /\ Len(ee_tgts) = common.conditions
          /\ Len(reset_conditions) = common.conditions

C4_Witness ==
    /\ pc = "check_dir"
    /\ Len(x0s) = 1 /\ Len(ee_tgts) = 1 /\ Len(reset_conditions) = 1

\* C5: a failed transform lookup (line 158 or line 160) ends the script
\* there: the failed call is the last call made and the only failed one,
\* nothing was appended for the condition, the directory was neither
\* checked nor created by the script, and agent, algorithm and config are
\* not built.
C5_LookupFailure ==
    err.type = "tf.Exception" =>
        /\ pc = "failed"
        /\ err.line \in {158, 160}
        /\ ~calls[Len(calls)].ok
        /\ calls[Len(calls)].fn =
               (IF err.line = 158 THEN "getLatestCommonTime" ELSE "get_position")
        /\ \A j \in 1..(Len(calls) - 1) : calls[j].ok
        /\ Len(x0s) = i /\ Len(ee_tgts) = i /\ Len(reset_conditions) = i
        /\ CallsOf("exists") = {} /\ CallsOf("makedirs") = {}
        /\ Unbound(agent) /\ Unbound(algorithm) /\ Unbound(config)

C5_Witness ==
    /\ pc = "failed" /\ err.type = "tf.Exception" /\ err.line = 160
    /\ ~calls[Len(calls)].ok
    /\ x0s = << >>

C6_State ==
    /\ \A j \in CallsOf("makedirs") :
          /\ j > 1
          /\ calls[j - 1].fn = "exists"
          /\ calls[j - 1].ret = FALSE
    /\ err.type = "OSError" =>
          /\ pc = "failed"
          /\ common.data_files_dir \in fs
          /\ calls[Len(calls)].fn = "makedirs" /\ ~calls[Len(calls)].ok
          /\ Unbound(agent) /\ Unbound(algorithm) /\ Unbound(config)

C6_Step ==
    (pc = "makedirs" /\ common.data_files_dir \in fs /\ pc' # pc) =>
        /\ pc' = "failed"
        /\ err'.type = "OSError"
        /\ fs' = fs

\* C6: the directory step is a check followed by a create; the create is
\* attempted only after the check found the directory absent, and a create
\* attempted when the directory has meanwhile appeared fails with an
\* uncaught error, so that the script ends with the directory present and
\* agent, algorithm and config not built.
C6_CheckThenCreate == [](C6_State) /\ [][C6_Step]_vars

C6_Witness ==
    /\ pc = "failed" /\ err.type = "OSError"
    /\ DATA_FILES_DIR \in fs
    /\ Unbound(config)

C8_State ==
    /\ ~Unbound(agent) => ~Unbound(common)
    /\ ~Unbound(algorithm) => ~Unbound(agent)
    /\ ~Unbound(config) =>
          {"type", "conditions", "iterations", "init_traj_distr", "cost",
           "dynamics", "traj_opt", "policy_opt"} = DOMAIN algorithm
    /\ pc = "info" => ~Unbound(config) /\ "info" \notin DOMAIN common
    /\ pc = "done" =>
          /\ "info" \in DOMAIN Resolve(config.common)
          /\ Resolve(config.common).info = common.info
          /\ DOMAIN Resolve(config.common) = DOMAIN common

C8_Step ==
    /\ ~Unbound(common) =>
          \A k \in DOMAIN common : k \in DOMAIN common' /\ common'[k] = common[k]
    /\ ~Unbound(agent) => agent' = agent
    /\ ~Unbound(algorithm) =>
          \A k \in DOMAIN algorithm :
              k \in DOMAIN algorithm' /\ algorithm'[k] = algorithm[k]
    /\ ~Unbound(config) =>
          /\ config' = config /\ agent' = agent /\ algorithm' = algorithm
          /\ fk_cost_ramp' = fk_cost_ramp /\ fk_cost_final' = fk_cost_final
          /\ DOMAIN common' \ DOMAIN common \subseteq {"info"}

\* C8: common, agent, algorithm (with its sub-entries) and config are built
\* once, in that order; after config is assembled the only write is
\* common['info']; when generate_experiment_info is called common has no
\* 'info' entry, and afterwards the entry is seen through config['common'].
C8_BuildOrder == [](C8_State) /\ [][C8_Step]_vars

C8_Witness ==
    /\ pc = "done"
    /\ "info" \in DOMAIN common
    /\ config.common.kind = "ref"

\* C9: the write of the looked-up position into x0 changes entries 12..14
\* (0-based) only: x0 is all zero before it, and after it the joint angles,
\* joint velocities and end-effector velocities are still zero and entries
\* 12..14 hold the looked-up position; the range lies inside x0.
C9_X0Frame ==
    /\ pc \in AfterSetup =>
          /\ joint_dim = 12
          /\ joint_dim + NUM_EE_POINTS * 3 <= Len(x0)
    /\ pc \in BeforeLookup => \A k \in 1..Len(x0) : x0[k] = 0
    /\ pc \in AfterLookup =>
          /\ \A k \in (1..Len(x0)) \ EeRange : x0[k] = 0
          /\ [r \in 1..3 |-> x0[12 + r]] = calls[Len(calls)].ret
    /\ \A n \in 1..Len(x0s) :
          \A k \in (1..6) \cup (7..12) \cup (16..18) : x0s[n][k] = 0

C9_Witness ==
    /\ pc = "append_x0"
    /\ x0[13] = 1 /\ x0[14] = 1 /\ x0[15] = 2
    /\ x0[12] = 0 /\ x0[16] = 0

\* C10: after completion the dictionaries agree: the conditions entries of
\* agent, algorithm and common equal the lengths of agent's x0,
\* ee_points_tgt and reset_conditions; config['iterations'] is
\* algorithm['iterations']; init_traj_distr has agent's dt and T; agent's dU
\* is SENSOR_DIMS[ACTION], the length of init_gains and init_acc.
C10_Agreement ==
    pc = "done" =>
        /\ agent.conditions = algorithm.conditions
        /\ algorithm.conditions = common.conditions
        /\ common.conditions = Len(Resolve(agent.x0))
        /\ common.conditions = Len(Resolve(agent.ee_points_tgt))
        /\ common.conditions = Len(Resolve(agent.reset_conditions))
        /\ config.iterations = algorithm.iterations
        /\ algorithm.init_traj_distr.dt = agent.dt
        /\ algorithm.init_traj_distr.T = agent.T
        /\ agent.dU = SENSOR_DIMS[ACTION_]
        /\ Len(algorithm.init_traj_distr.init_gains) = agent.dU
        /\ Len(algorithm.init_traj_distr.init_acc) = agent.dU

C10_Witness ==
    /\ pc = "done"
    /\ agent.conditions = 1 /\ agent.dU = 6
    /\ Len(Resolve(agent.x0)) = 1
====
